---- MODULE Spec2Model ----
(***************************************************************************)
(* A model of the react-native-chatgpt bridge: the host component ChatGpt3 *)
(* (accessToken state, callback refs, sendMessage), the ModalWebView       *)
(* (visibility status, animations, capacity retry, the onMessage router)   *)
(* and the script injected into the WebView (patched fetch and             *)
(* sendGptMessage).                                                        *)
(*                                                                         *)
(* React state is modelled as the value the next render will see (status,  *)
(* accessToken) and the value the handlers of the current render closed    *)
(* over (renderedStatus, renderedAccessToken); Render brings the closures  *)
(* up to date and runs the effects.                                        *)
(***************************************************************************)
EXTENDS Integers, Sequences, FiniteSets, TLC

(***************************************************************************)
(* Bounds of the model.                                                    *)
(***************************************************************************)
\* how many request configurations the page's own traffic emits
MaxIntercepts == 3
\* how many reload-and-recheck chains (pending notices and waiting cycles)
MaxCycles == 2
\* how many bridge messages may be in flight (capacity notices apart)
MaxInbox == 2
\* how many streamed prompts the host dispatches
MaxPrompts == 1
\* how many cumulative records a response body holds before its sentinel
MaxRecords == 3
\* how many cumulative records the backend's answer to a streamed prompt holds
MaxBody == 2
\* how many stream calls the host makes while earlier prompts are running
MaxCalls == 2
\* how many single-shot sendMessage calls the host makes
MaxShots == 1
\* how many navigation events for the chat page are followed
MaxNavigations == 1
\* how many pieces of the body one read of the stream may return
MaxChunk == 2
\* how many STREAM_ERROR messages the page posts on its own
MaxPagePosts == 2

(***************************************************************************)
(* Values.                                                                 *)
(***************************************************************************)
Tokens == {"A", "B"}
\* a header key that is not present in the headers object
Absent == "<absent>"
Modes == {"show", "hide"}
Statuses == {"hidden", "animating", "visible"}

\* what the patched fetch may serialise as payload: config undefined (the key
\* is dropped by JSON.stringify), a config without headers, or a config with
\* headers holding the keys Authorization and authorization or not
UndefinedPayload == [kind |-> "undefined"]
NoHeaders == [kind |-> "undefined"]
HeaderObjects ==
    {[kind |-> "object", Authorization |-> a, authorization |-> Absent] :
        a \in {""} \cup Tokens}
    \cup {[kind |-> "object", Authorization |-> Absent, authorization |-> "A"]}
ConfigPayloads ==
    {UndefinedPayload, [kind |-> "object", headers |-> NoHeaders]}
    \cup {[kind |-> "object", headers |-> h] : h \in HeaderObjects}

\* the message postMessage gives a 401 or 403 client error
ExpiredTokenMessage ==
    "ChatGPTResponseClientError: Your access token may have expired. Please login again."

\* the backend's answers to a prompt
ResponseStatuses == {200, 403, 500}
StatusTexts == {"", "Internal Error"}

\* the backend's answers to a single-shot prompt: statuses on both sides of
\* 400 and 500, and texts that parse or do not
SingleShotStatuses == {200, 399, 400, 401, 403, 404, 499, 500, 503}

\* an option the caller does not supply
Undefined == "<undefined>"
\* conversationId / messageId as the caller may give them in the options
SuppliedIds == {Undefined, "", "id"}

\* STREAM_ERROR payloads of the shape the WebViewEvents type declares,
\* {status, statusText}, and an absent payload
TypedStreamErrorPayloads ==
    {[kind |-> "object", status |-> s, statusText |-> t] :
        s \in {403, 500}, t \in StatusTexts}
    \cup {UndefinedPayload}

\* The response body as text. A cumulative record with the first n pieces of
\* the answer is written as two halves, so that a chunk may end inside it;
\* the sentinel ends the body.
RecordText(id, n) == <<[t |-> "L", id |-> id, n |-> n], [t |-> "R", id |-> id, n |-> n]>>
SentinelText == <<[t |-> "DONE", id |-> 0, n |-> 0]>>

RECURSIVE BodyText(_, _)
BodyText(id, n) ==
    IF n = 0 THEN <<>> ELSE BodyText(id, n - 1) \o RecordText(id, n)

\* a body of n cumulative records for message id, then the sentinel
Body(id, n) == BodyText(id, n) \o SentinelText

VARIABLES
    accessToken,          \* ChatGpt3: useState('')
    renderedAccessToken,  \* the accessToken the current render's closures hold
    callbackRef,          \* ChatGpt3: callbackRef.current (0: the initial () => null)
    errorCallbackRef,     \* ChatGpt3: errorCallbackRef.current (0: a () => null)
    status,               \* ModalWebView: useState('hidden')
    renderedStatus,       \* the status the current render's closures hold
    anim,                 \* the Animated.timing in progress: "none", "show", "hide"
    waiting1,             \* reloadAndCheckCapacityAgain instances in wait(2000)
    waiting2,             \* reloadAndCheckCapacityAgain instances in wait(3000)
    atCapacity,           \* the loaded document shows the capacity phrase
    reloaded,             \* flips at every webviewRef.reload() of the retry cycle
    prompts,              \* the sendGptMessage invocations in the WebView
    inbox,                \* bridge messages posted by the WebView, not yet handled
    buffer,               \* stream accumulator: the raw text so far
    emitted,              \* stream accumulator: the records already answered
    lastSnapshot,         \* stream accumulator: the last parsed response
    handled,              \* the messages onMessage has handled, in order
    calls                 \* the invocations of the host's callbacks, in order

vars == <<accessToken, renderedAccessToken, callbackRef, errorCallbackRef,
          status, renderedStatus, anim, waiting1, waiting2, atCapacity,
          reloaded, prompts, inbox, buffer, emitted, lastSnapshot, handled, calls>>

tokenVars == <<accessToken, renderedAccessToken>>
refVars == <<callbackRef, errorCallbackRef>>
visibilityVars == <<status, anim>>
retryVars == <<waiting1, waiting2>>
pageVars == <<atCapacity, reloaded, prompts>>
parserVars == <<buffer, emitted, lastSnapshot>>
logVars == <<handled, calls>>

Message(type, payload) == [type |-> type, payload |-> payload]
CapacityNotice == Message("GPT3_FULL_CAPACITY", UndefinedPayload)

\* event.nativeEvent.data that is no JSON text, and the JSON text `null`:
\* `const { payload, type } = JSON.parse(data)` throws on both
NotJSON == [data |-> "not JSON", type |-> Absent, payload |-> UndefinedPayload]
JSONNull == [data |-> "null", type |-> Absent, payload |-> UndefinedPayload]
ParseThrows(m) == "data" \in DOMAIN m

\* a payload that is an object where a string is expected
ObjectPayload == [kind |-> "object"]

\* the type the probe script of api/index.ts posts
ProbeScriptType == "CHAT_GPT_FULL_CAPACITY"

\* the capacity notices are not kept in the log of handled messages
Logged(m) == m.type # "GPT3_FULL_CAPACITY"

RECURSIVE SelectType(_, _)
SelectType(s, type) ==
    IF s = <<>> THEN <<>>
    ELSE IF Head(s).type = type
         THEN <<Head(s)>> \o SelectType(Tail(s), type)
         ELSE SelectType(Tail(s), type)

\* the reload-and-recheck chains alive: notices not yet handled and cycles waiting
Chains == Len(SelectType(inbox, "GPT3_FULL_CAPACITY")) + waiting1 + waiting2

NoResponse == [kind |-> "null"]

Init ==
    /\ accessToken = ""
    /\ renderedAccessToken = ""
    /\ callbackRef = 0
    /\ errorCallbackRef = 0
    /\ status = "hidden"
    /\ renderedStatus = "hidden"
    /\ anim = "none"
    /\ waiting1 = 0
    /\ waiting2 = 0
    /\ atCapacity \in BOOLEAN
    /\ reloaded = FALSE
    /\ prompts = <<>>
    /\ inbox = <<>>
    /\ buffer = <<>>
    /\ emitted = 0
    /\ lastSnapshot = NoResponse
    /\ handled = <<>>
    /\ calls = <<>>

(***************************************************************************)
(* useWebViewAnimation (hooks.ts) and its callbacks in ModalWebView.        *)
(***************************************************************************)
\* the targets swapped
OnAnimationEndSwapped(mode) == IF mode = "show" THEN "hidden" ELSE "visible"

\* onAnimationEnd: (mode) => setStatus(mode === 'show' ? 'visible' : 'hidden')
onAnimationEnd(mode) == IF mode = "show" THEN "visible" ELSE "hidden"

\* onAnimationStart: () => setStatus('animating')
onAnimationStart(mode) == "animating"

\* animateWebView(mode): onAnimationStart, then Animated.timing(...).start(cb).
\* Starting an animation on animatedValue stops the one in progress, whose
\* completion callback runs at once (it does not look at `finished`), so
\* the last setStatus of the call is the stopped animation's onAnimationEnd.
animateWebView(mode) ==
    /\ status' = IF anim = "none" THEN onAnimationStart(mode) ELSE onAnimationEnd(anim)
    /\ anim' = mode

\* the animation ends and its completion callback is not run
AnimationEndWithoutCallback ==
    /\ anim # "none"
    /\ status' = status
    /\ anim' = "none"
    /\ UNCHANGED <<tokenVars, refVars, renderedStatus, retryVars, pageVars,
                   inbox, parserVars, logVars>>

\* the completion callback of the running Animated.timing
AnimationEnd ==
    /\ anim # "none"
    /\ status' = onAnimationEnd(anim)
    /\ anim' = "none"
    /\ UNCHANGED <<tokenVars, refVars, renderedStatus, retryVars, pageVars,
                   inbox, parserVars, logVars>>

\* login() of the earlier host: the token is cleared as the sandbox opens
openClearingToken ==
    /\ Chains < MaxCycles
    /\ animateWebView("show")
    /\ accessToken' = ""
    /\ UNCHANGED <<renderedAccessToken, refVars, renderedStatus, retryVars, pageVars,
                   inbox, parserVars, logVars>>

\* ModalWebViewMethods.open, called by the host's login()
open ==
    /\ Chains < MaxCycles
    /\ animateWebView("show")
    /\ UNCHANGED <<tokenVars, refVars, renderedStatus, retryVars, pageVars,
                   inbox, parserVars, logVars>>

\* the close Icon's onPress
closePress ==
    /\ animateWebView("hide")
    /\ UNCHANGED <<tokenVars, refVars, renderedStatus, retryVars, pageVars,
                   inbox, parserVars, logVars>>

\* onNavigationStateChange: url.startsWith(CHAT_PAGE) && loading, and the
\* status of the render is 'visible': hide
onNavigationStateChange(chatPage, loading) ==
    /\ IF chatPage /\ loading /\ renderedStatus = "visible"
       THEN animateWebView("hide")
       ELSE UNCHANGED visibilityVars
    /\ UNCHANGED <<tokenVars, refVars, renderedStatus, retryVars, pageVars,
                   inbox, parserVars, logVars>>

\* the navigation events for the chat page (loading) that were followed
IsNavigation(c) == c.cb = "onNavigationStateChange"
Navigations == SelectSeq(calls, IsNavigation)

\* onNavigationStateChange for the chat page, loading, with the event
\* logged together with the status it met
ChatPageNavigation ==
    /\ Len(Navigations) < MaxNavigations
    /\ IF renderedStatus = "visible"
       THEN animateWebView("hide")
       ELSE UNCHANGED visibilityVars
    /\ calls' = Append(calls, [cb |-> "onNavigationStateChange", status |-> status, at |-> 0])
    /\ UNCHANGED <<tokenVars, refVars, renderedStatus, retryVars, pageVars,
                   inbox, parserVars, handled>>

NavigationStateChange ==
    \E chatPage \in BOOLEAN, loading \in BOOLEAN :
        onNavigationStateChange(chatPage, loading)

(***************************************************************************)
(* The capacity probe and the retry cycle.                                 *)
(***************************************************************************)
\* checkIfChatGPTIsAtFullCapacity: the injected script posts GPT3_FULL_CAPACITY
\* when the document holds the capacity phrase
checkIfChatGPTIsAtFullCapacity(box) ==
    IF atCapacity THEN Append(box, CapacityNotice) ELSE box

\* useEffect(..., [status]): probe when the status has become 'visible'
StatusEffect(box) ==
    IF renderedStatus # status /\ status = "visible"
    THEN checkIfChatGPTIsAtFullCapacity(box)
    ELSE box

\* a React commit: the handlers close over the new state and the effects run
Render ==
    /\ renderedStatus # status \/ renderedAccessToken # accessToken
    /\ renderedStatus' = status
    /\ renderedAccessToken' = accessToken
    /\ inbox' = StatusEffect(inbox)
    /\ UNCHANGED <<accessToken, refVars, visibilityVars, retryVars, pageVars,
                   parserVars, logVars>>

\* a reload discards the document and the scripts running in it
Discarded(ps) ==
    [i \in DOMAIN ps |->
        IF ps[i].pc \in {"done", "failed"} THEN ps[i]
        ELSE [ps[i] EXCEPT !.pc = "discarded", !.body = <<>>]]

\* webviewRef.current?.reload(): the reloaded document may or may not show
\* the capacity phrase
reload ==
    /\ atCapacity' \in BOOLEAN
    /\ reloaded' = ~reloaded
    /\ prompts' = Discarded(prompts)

\* the earlier reloadAndCheckCapacityAgain (reload first, then one wait),
\* standing in for the current one
ReloadBeforeWaiting ==
    /\ reload
    /\ waiting2' = waiting2 + 1
    /\ UNCHANGED waiting1

\* reloadAndCheckCapacityAgain up to its first await: it suspends in wait(2000)
reloadAndCheckCapacityAgain ==
    /\ waiting1' = waiting1 + 1
    /\ UNCHANGED <<waiting2, pageVars>>

\* reloadAndCheckCapacityAgain resumed after `await wait(2000)`:
\* webviewRef.current?.reload(), then it suspends in wait(3000)
ReloadAfterFirstWait ==
    /\ waiting1 > 0
    /\ waiting1' = waiting1 - 1
    /\ waiting2' = waiting2 + 1
    /\ reload
    /\ UNCHANGED <<tokenVars, refVars, visibilityVars, renderedStatus, inbox,
                   parserVars, logVars>>

\* reloadAndCheckCapacityAgain resumed after `await wait(3000)`:
\* checkIfChatGPTIsAtFullCapacity()
ProbeAfterSecondWait ==
    /\ waiting2 > 0
    /\ waiting2' = waiting2 - 1
    /\ inbox' = checkIfChatGPTIsAtFullCapacity(inbox)
    /\ UNCHANGED <<tokenVars, refVars, visibilityVars, renderedStatus, waiting1,
                   pageVars, parserVars, logVars>>

(***************************************************************************)
(* The injected script (api/index.ts): the patched window.fetch and        *)
(* window.sendGptMessage, and the host's sendMessage that calls it.        *)
(***************************************************************************)
CountType(type) == Len(SelectType(inbox, type)) + Len(SelectType(handled, type))

\* window.fetch = async (...args) => { postMessage({type:
\* 'REQUEST_INTERCEPTED_CONFIG', payload: config}); ... }, for a request the
\* page itself makes
InterceptFetch ==
    /\ CountType("REQUEST_INTERCEPTED_CONFIG") < MaxIntercepts
    /\ Len(inbox) < MaxInbox
    /\ \E config \in ConfigPayloads :
          inbox' = Append(inbox, Message("REQUEST_INTERCEPTED_CONFIG", config))
    /\ UNCHANGED <<tokenVars, refVars, visibilityVars, renderedStatus, retryVars,
                   pageVars, parserVars, logVars>>

\* any script of the page can post to the bridge: a STREAM_ERROR message of
\* the shape the WebViewEvents type declares
PostStreamError ==
    /\ CountType("STREAM_ERROR") < MaxPagePosts
    /\ Len(inbox) < MaxInbox
    /\ \E payload \in TypedStreamErrorPayloads :
          inbox' = Append(inbox, Message("STREAM_ERROR", payload))
    /\ UNCHANGED <<tokenVars, refVars, visibilityVars, renderedStatus, retryVars,
                   pageVars, parserVars, logVars>>

\* the texts of RAW_PARTIAL_RESPONSE messages that carry one whole record
\* or the sentinel
RecordTexts ==
    {RecordText(id, n) : id \in 1..MaxPrompts, n \in 1..MaxRecords} \cup {SentinelText}

\* a RAW_PARTIAL_RESPONSE message as sendGptMessage posts it for a chunk,
\* seen from the router: any sequence of record texts may arrive
PostRawPartialResponse ==
    /\ CountType("RAW_PARTIAL_RESPONSE") < MaxRecords + 1
    /\ Len(inbox) < MaxInbox
    /\ \E text \in RecordTexts :
          inbox' = Append(inbox,
                Message("RAW_PARTIAL_RESPONSE", [kind |-> "string", text |-> text]))
    /\ UNCHANGED <<tokenVars, refVars, visibilityVars, renderedStatus, retryVars,
                   pageVars, parserVars, logVars>>

\* what the scripts of the page can post to the bridge: texts that do not
\* parse, objects without type, messages of each type without payload or
\* with a payload of another shape, a type the router does not know, and
\* one message of each type as the injected scripts post it
BridgeTexts ==
    {NotJSON, JSONNull, Message(Absent, UndefinedPayload),
     Message(ProbeScriptType, UndefinedPayload), CapacityNotice}
    \cup {Message("REQUEST_INTERCEPTED_CONFIG", p) :
            p \in {UndefinedPayload,
                   [kind |-> "object",
                    headers |-> [kind |-> "object", Authorization |-> "A",
                                 authorization |-> Absent]]}}
    \cup {Message("RAW_PARTIAL_RESPONSE", p) :
            p \in {ObjectPayload, [kind |-> "string", text |-> RecordText(1, 1)]}}
    \cup {Message("STREAM_ERROR", p) :
            p \in {UndefinedPayload,
                   [kind |-> "object", status |-> 500, statusText |-> "Internal Error"]}}

\* the messages of the page, posted and not yet handled or handled, the
\* capacity notices apart
PagePosts == Len(SelectSeq(inbox, Logged)) + Len(handled)

\* window.ReactNativeWebView.postMessage(text) by any script of the page
PostToBridge ==
    /\ PagePosts < MaxPagePosts
    /\ Len(inbox) < MaxInbox
    /\ \E m \in BridgeTexts :
          /\ m = CapacityNotice => Chains < MaxCycles
          /\ inbox' = Append(inbox, m)
    /\ UNCHANGED <<tokenVars, refVars, visibilityVars, renderedStatus, retryVars,
                   pageVars, parserVars, logVars>>

\* getHeaders(accessToken) of sendGptMessage: the token goes under the key
\* `authorization`
getHeaders(token) ==
    [kind |-> "object", Authorization |-> Absent, authorization |-> token]

\* the single-shot calls logged
IsShot(c) == c.cb = "postMessage"
Shots == SelectSeq(calls, IsShot)

\* uuid.v4(): the k-th identifier generated, unlike any other
Uuid(k) == "uuid-" \o ToString(k)
\* every call draws two
Generated == 2 * (Len(prompts) + Len(Shots))

\* messageId = uuid.v4(), conversationId = uuid.v4(): the default of a
\* parameter applies when the argument is undefined
DefaultId(supplied, fresh) == IF supplied = Undefined THEN fresh ELSE supplied

\* "${options?.messageId || uuid.v4()}": a falsy value gives way to a new one
ScriptId(supplied, fresh) == IF supplied = Undefined \/ supplied = "" THEN fresh ELSE supplied

\* a call whose options are not given
NoOptions == [conversationId |-> Undefined, messageId |-> Undefined]
Options == [conversationId : SuppliedIds, messageId : SuppliedIds]

\* getPostMessageWithStreamScript(accessToken, message, options): the
\* arguments of window.sendGptMessage, which puts messageId into
\* parent_message_id and conversationId into messages[0].id
getPostMessageWithStreamScript(token, options) ==
    [accessToken |-> token,
     parent_message_id |-> ScriptId(options.messageId, Uuid(Generated + 1)),
     id |-> ScriptId(options.conversationId, Uuid(Generated + 2))]

\* a call without onError keeps the onError registered before
sendMessageKeepingOnError(options, onPartialResponse, onError) ==
    LET id == Len(prompts) + 1 IN
    /\ Len(inbox) < MaxInbox
    /\ IF onPartialResponse
       THEN /\ callbackRef' = id
            /\ errorCallbackRef' = IF onError THEN id ELSE errorCallbackRef
            /\ prompts' = Append(prompts,
                  [pc |-> "fetching", id |-> id, body |-> <<>>, chunks |-> <<>>,
                   status |-> 0, statusText |-> "", options |-> options,
                   request |-> getPostMessageWithStreamScript(renderedAccessToken, options)])
            /\ inbox' = Append(inbox,
                  Message("REQUEST_INTERCEPTED_CONFIG",
                          [kind |-> "object", headers |-> getHeaders(renderedAccessToken)]))
       ELSE UNCHANGED <<refVars, prompts, inbox>>
    /\ UNCHANGED <<tokenVars, visibilityVars, renderedStatus, retryVars, atCapacity,
                   reloaded, parserVars, logVars>>

\* a call without onPartialResponse puts the no-op callbacks back
sendMessageObjectResetting(options, onPartialResponse, onError) ==
    LET id == Len(prompts) + 1 IN
    /\ Len(inbox) < MaxInbox
    /\ IF onPartialResponse
       THEN /\ callbackRef' = id
            /\ errorCallbackRef' = IF onError THEN id ELSE 0
            /\ prompts' = Append(prompts,
                  [pc |-> "fetching", id |-> id, body |-> <<>>, chunks |-> <<>>,
                   status |-> 0, statusText |-> "", options |-> options,
                   request |-> getPostMessageWithStreamScript(renderedAccessToken, options)])
            /\ inbox' = Append(inbox,
                  Message("REQUEST_INTERCEPTED_CONFIG",
                          [kind |-> "object", headers |-> getHeaders(renderedAccessToken)]))
       ELSE /\ callbackRef' = 0
            /\ errorCallbackRef' = 0
            /\ UNCHANGED <<prompts, inbox>>
    /\ UNCHANGED <<tokenVars, visibilityVars, renderedStatus, retryVars, atCapacity,
                   reloaded, parserVars, handled>>

\* the object form of sendMessage, sendMessage({message, options,
\* onPartialResponse, onError}) of ChatGpt3, then the injected call
\* window.sendGptMessage({accessToken, ...}) up to its `await fetch(...)`:
\* the patched fetch posts the request's configuration
sendMessageObject(options, onPartialResponse, onError) ==
    LET id == Len(prompts) + 1 IN
    /\ Len(inbox) < MaxInbox
    /\ IF onPartialResponse
       THEN /\ callbackRef' = id
            /\ errorCallbackRef' = IF onError THEN id ELSE 0
            /\ prompts' = Append(prompts,
                  [pc |-> "fetching", id |-> id, body |-> <<>>, chunks |-> <<>>,
                   status |-> 0, statusText |-> "", options |-> options,
                   request |-> getPostMessageWithStreamScript(renderedAccessToken, options)])
            /\ inbox' = Append(inbox,
                  Message("REQUEST_INTERCEPTED_CONFIG",
                          [kind |-> "object", headers |-> getHeaders(renderedAccessToken)]))
       ELSE UNCHANGED <<refVars, prompts, inbox>>
    /\ UNCHANGED <<tokenVars, visibilityVars, renderedStatus, retryVars, atCapacity,
                   reloaded, parserVars, handled>>

\* the object form where the call itself is not observed
sendMessage(options, onPartialResponse, onError) ==
    /\ sendMessageObject(options, onPartialResponse, onError)
    /\ UNCHANGED calls

SendMessage ==
    /\ Len(prompts) < MaxPrompts
    /\ \E onPartialResponse \in BOOLEAN, onError \in BOOLEAN :
          sendMessage(NoOptions, onPartialResponse, onError)

\* a stream call with the identifiers the caller gives or not
SendMessageWithOptions ==
    /\ Len(prompts) < MaxPrompts
    /\ \E options \in Options, onPartialResponse \in BOOLEAN, onError \in BOOLEAN :
          sendMessage(options, onPartialResponse, onError)

\* stream calls that follow one another while earlier prompts are running
SendMessageAgain ==
    /\ Len(prompts) < MaxCalls
    /\ \E onPartialResponse \in BOOLEAN, onError \in BOOLEAN :
          sendMessage(NoOptions, onPartialResponse, onError)

\* the payload sendGptMessage posts for an error status:
\* {status: res.status, message: res.statusText}
StreamErrorPayload(s, t) == [kind |-> "object", status |-> s, message |-> t]

\* the messages that bear on the host's token: a page request with a token
\* in its Authorization header, and a STREAM_ERROR for a rejected token
TokenTexts ==
    {Message("REQUEST_INTERCEPTED_CONFIG",
             [kind |-> "object",
              headers |-> [kind |-> "object", Authorization |-> a, authorization |-> Absent]]) :
        a \in Tokens}
    \cup {Message("STREAM_ERROR", StreamErrorPayload(403, ""))}

\* the messages posted and the calls made that bear on the token
TokenEvents == PagePosts + Len(Shots)

PostTokenOrError ==
    /\ TokenEvents <= MaxPagePosts
    /\ Len(inbox) < MaxInbox
    /\ \E m \in TokenTexts : inbox' = Append(inbox, m)
    /\ UNCHANGED <<tokenVars, refVars, visibilityVars, renderedStatus, retryVars,
                   pageVars, parserVars, logVars>>

\* what the routines of the prompts dispatched so far post, seen from the
\* router: the first record of any of them, the sentinel, or the
\* STREAM_ERROR of an error status
RoutineTexts ==
    {Message("RAW_PARTIAL_RESPONSE", [kind |-> "string", text |-> text]) :
        text \in {RecordText(id, 1) : id \in DOMAIN prompts} \cup {SentinelText}}
    \cup {Message("STREAM_ERROR", StreamErrorPayload(s, t)) :
            s \in {r \in ResponseStatuses : r >= 400 /\ r < 600}, t \in StatusTexts}

RoutinePosts == CountType("RAW_PARTIAL_RESPONSE") + CountType("STREAM_ERROR")

PostFromRoutine ==
    /\ prompts # <<>>
    /\ RoutinePosts < MaxPagePosts
    /\ Len(inbox) < MaxInbox
    /\ \E m \in RoutineTexts : inbox' = Append(inbox, m)
    /\ UNCHANGED <<tokenVars, refVars, visibilityVars, renderedStatus, retryVars,
                   pageVars, parserVars, logVars>>

SetPrompt(i, pc, body) == prompts' = [prompts EXCEPT ![i] = [@ EXCEPT !.pc = pc, !.body = body]]

\* a chunk has been read: the body still to come, and the chunks read so far
SetChunkRead(i, k) ==
    prompts' = [prompts EXCEPT ![i] =
                   [@ EXCEPT !.body = SubSeq(@, k + 1, Len(@)),
                             !.chunks = Append(@, SubSeq(prompts[i].body, 1, k))]]

\* `const res = await fetch(...)` has answered: res.status, res.statusText
SetAnswer(i, pc, body, s, t) ==
    prompts' = [prompts EXCEPT ![i] =
                   [@ EXCEPT !.pc = pc, !.body = body, !.status = s, !.statusText = t]]

\* the `return` is missing: after the STREAM_ERROR the body is read as well
FetchSettlesAndReadsOn(i) ==
    /\ prompts[i].pc = "fetching"
    /\ \/ /\ SetPrompt(i, "failed", <<>>)
          /\ UNCHANGED inbox
       \/ \E s \in ResponseStatuses, t \in StatusTexts :
             IF s >= 400 /\ s < 600
             THEN /\ Len(inbox) < MaxInbox
                  /\ SetAnswer(i, "reading", Body(prompts[i].id, MaxBody), s, t)
                  /\ inbox' = Append(inbox, Message("STREAM_ERROR", StreamErrorPayload(s, t)))
             ELSE /\ t = ""
                  /\ SetAnswer(i, "reading", Body(prompts[i].id, MaxBody), s, t)
                  /\ UNCHANGED inbox
    /\ UNCHANGED <<tokenVars, refVars, visibilityVars, renderedStatus, retryVars,
                   atCapacity, reloaded, parserVars, logVars>>

\* sendGptMessage after `await fetch(...)`: the call threw (caught and logged),
\* or the response has an error status (one STREAM_ERROR), or its body is read
FetchSettles(i) ==
    /\ prompts[i].pc = "fetching"
    /\ \/ /\ SetPrompt(i, "failed", <<>>)
          /\ UNCHANGED inbox
       \/ \E s \in ResponseStatuses, t \in StatusTexts :
             IF s >= 400 /\ s < 600
             THEN /\ Len(inbox) < MaxInbox
                  /\ SetAnswer(i, "done", <<>>, s, t)
                  /\ inbox' = Append(inbox, Message("STREAM_ERROR", StreamErrorPayload(s, t)))
             ELSE /\ t = ""
                  /\ SetAnswer(i, "reading", Body(prompts[i].id, MaxBody), s, t)
                  /\ UNCHANGED inbox
    /\ UNCHANGED <<tokenVars, refVars, visibilityVars, renderedStatus, retryVars,
                   atCapacity, reloaded, parserVars, logVars>>

Min(a, b) == IF a < b THEN a ELSE b

\* the chunk that ends the body is read and not posted
ReadChunkLosingLast(i) ==
    /\ prompts[i].pc = "reading"
    /\ LET body == prompts[i].body IN
       \/ /\ SetPrompt(i, IF body = <<>> THEN "done" ELSE "failed", <<>>)
          /\ UNCHANGED inbox
       \/ /\ body # <<>>
          /\ Len(inbox) < MaxInbox
          /\ \E k \in 1..Min(MaxChunk, Len(body)) :
                /\ SetChunkRead(i, k)
                /\ inbox' = IF k = Len(body) THEN inbox
                            ELSE Append(inbox,
                                   Message("RAW_PARTIAL_RESPONSE",
                                           [kind |-> "string", text |-> SubSeq(body, 1, k)]))
    /\ UNCHANGED <<tokenVars, refVars, visibilityVars, renderedStatus, retryVars,
                   atCapacity, reloaded, parserVars, logVars>>

\* the read loop goes on after a read that threw
ReadChunkOnAfterFailure(i) ==
    /\ prompts[i].pc \in {"reading", "failed"}
    /\ prompts[i].status # 0
    /\ LET body == prompts[i].body IN
       \/ /\ prompts[i].pc = "reading"
          /\ SetPrompt(i, IF body = <<>> THEN "done" ELSE "failed", body)
          /\ UNCHANGED inbox
       \/ /\ body # <<>>
          /\ Len(inbox) < MaxInbox
          /\ \E k \in 1..Min(MaxChunk, Len(body)) :
                /\ SetChunkRead(i, k)
                /\ inbox' = Append(inbox,
                      Message("RAW_PARTIAL_RESPONSE",
                              [kind |-> "string", text |-> SubSeq(body, 1, k)]))
    /\ UNCHANGED <<tokenVars, refVars, visibilityVars, renderedStatus, retryVars,
                   atCapacity, reloaded, parserVars, logVars>>

\* one turn of `for await (const chunk of streamAsyncIterable(res.body))`:
\* the read threw (caught and logged), the stream is done, or a chunk is
\* decoded and posted as RAW_PARTIAL_RESPONSE
ReadChunk(i) ==
    /\ prompts[i].pc = "reading"
    /\ LET body == prompts[i].body IN
       \/ /\ SetPrompt(i, IF body = <<>> THEN "done" ELSE "failed", <<>>)
          /\ UNCHANGED inbox
       \/ /\ body # <<>>
          /\ Len(inbox) < MaxInbox
          /\ \E k \in 1..Min(MaxChunk, Len(body)) :
                /\ SetChunkRead(i, k)
                /\ inbox' = Append(inbox,
                      Message("RAW_PARTIAL_RESPONSE",
                              [kind |-> "string", text |-> SubSeq(body, 1, k)]))
    /\ UNCHANGED <<tokenVars, refVars, visibilityVars, renderedStatus, retryVars,
                   atCapacity, reloaded, parserVars, logVars>>

SandboxStep == \E i \in DOMAIN prompts : FetchSettles(i) \/ ReadChunk(i)

\* the supported use: the host sends a prompt once the routine of the
\* previous one has ended in the page
SendNextMessage ==
    /\ \A i \in DOMAIN prompts : prompts[i].pc \notin {"fetching", "reading"}
    /\ SendMessage

(***************************************************************************)
(* The stream accumulator behind parseStreamBasedResponse (utils), from    *)
(* its description: ingest appends the text to the buffer, parses the      *)
(* cumulative buffer and answers the latest record when it is a new one.   *)
(***************************************************************************)
\* the complete records of a buffer, in order; an incomplete trailing record
\* (a first half without its second) is not one of them
RECURSIVE Records(_)
Records(buf) ==
    IF buf = <<>> THEN <<>>
    ELSE IF Head(buf).t = "DONE" THEN <<Head(buf)>> \o Records(Tail(buf))
    ELSE IF /\ Head(buf).t = "L"
            /\ Len(buf) >= 2
            /\ buf[2] = [Head(buf) EXCEPT !.t = "R"]
         THEN <<Head(buf)>> \o Records(Tail(Tail(buf)))
         ELSE Records(Tail(buf))

Response(message, messageId, done) ==
    [kind |-> "response", message |-> message, messageId |-> messageId, done |-> done]

\* the response a record stands for: the sentinel closes the last snapshot
Snapshot(record, last) ==
    IF record.t = "DONE"
    THEN IF last = NoResponse
         THEN Response(0, 0, TRUE)
         ELSE Response(last.message, last.messageId, TRUE)
    ELSE Response(record.n, record.id, FALSE)

\* the buffer ends in the middle of a record: a first half without its second
EndsMidRecord(buf) == buf # <<>> /\ buf[Len(buf)].t = "L"

\* a record that carries text: any record but the sentinel
IsContent(record) == record.t # "DONE"

\* the snapshot the cumulative buffer stands at: its latest record with
\* text, later records superseding earlier ones
Latest(records, last) ==
    LET content == SelectSeq(records, IsContent) IN
    IF content = <<>> THEN last
    ELSE Response(content[Len(content)].n, content[Len(content)].id, FALSE)

\* the accumulator the router's calls share, and a new one
Accumulator == [buffer |-> buffer, emitted |-> emitted, lastSnapshot |-> lastSnapshot]
FreshAccumulator == [buffer |-> <<>>, emitted |-> 0, lastSnapshot |-> NoResponse]

\* ingest(text) on an accumulator: the result, and the accumulator after the
\* call
ingest(acc, text) ==
    LET buf == acc.buffer \o text
        records == Records(buf)
        fresh == ~EndsMidRecord(buf) /\ Len(records) > acc.emitted
        result == IF fresh
                  THEN Snapshot(records[Len(records)], Latest(records, acc.lastSnapshot))
                  ELSE NoResponse
        ended == fresh /\ result.done
    IN [result |-> result,
        buffer |-> IF ended THEN <<>> ELSE buf,
        emitted |-> IF ended THEN 0 ELSE IF fresh THEN Len(records) ELSE acc.emitted,
        lastSnapshot |-> IF ended THEN NoResponse
                         ELSE IF fresh THEN result ELSE acc.lastSnapshot]

\* a payload that is no text: nothing is parsed and nothing is kept
ParseFailure == [Accumulator EXCEPT !.buffer = buffer] @@ [result |-> NoResponse]

\* the router's parseStreamBasedResponse(payload): one more text for the
\* accumulator
parseStreamBasedResponse(text) == ingest(Accumulator, text)

\* postMessage's parse of the whole response text, in one call
parseStreamedGptResponse(rawText) == ingest(FreshAccumulator, rawText).result

(***************************************************************************)
(* The single-shot path: sendMessage(message, options) and postMessage     *)
(* (api/index.ts).                                                         *)
(***************************************************************************)
\* whole response texts: empty, cut inside a record, records without the
\* sentinel, the sentinel alone, complete bodies
ResponseTexts ==
    {<<>>, SubSeq(RecordText(1, 1), 1, 1), BodyText(1, 1), SentinelText,
     Body(1, 1), Body(1, 2)}

Throw(error) == [kind |-> "throw", error |-> error]
Return(value) == [kind |-> "return", value |-> value]

ClientErrorPrefix == "ChatGPTResponseClientError: "
ServerErrorPrefix == "ChatGPTResponseServerError: "
UnableToParse == "ChatGPTResponseError: Unable to parse response"

\* `${prefix}${res.status} ${res.statusText}`
StatusMessage(prefix, s, t) == [literal |-> prefix, status |-> s, statusText |-> t]

\* the earlier version: only 403 is taken for an expired token
postMessageOnly403(s, t, rawText) ==
    IF s >= 400 /\ s < 500
    THEN Throw([message |-> IF s = 403
                            THEN [literal |-> ExpiredTokenMessage]
                            ELSE StatusMessage(ClientErrorPrefix, s, t),
                statusCode |-> s])
    ELSE IF s >= 500
    THEN Throw([message |-> StatusMessage(ServerErrorPrefix, s, t), statusCode |-> s])
    ELSE LET parsedData == parseStreamedGptResponse(rawText) IN
         IF parsedData = NoResponse
         THEN Throw([message |-> [literal |-> UnableToParse]])
         ELSE Return(parsedData)

\* postMessage after `await fetch(...)`: res.status s, res.statusText t and
\* `await res.text()` rawText
postMessage(s, t, rawText) ==
    IF s >= 400 /\ s < 500
    THEN Throw([message |-> IF s = 403 \/ s = 401
                            THEN [literal |-> ExpiredTokenMessage]
                            ELSE StatusMessage(ClientErrorPrefix, s, t),
                statusCode |-> s])
    ELSE IF s >= 500
    THEN Throw([message |-> StatusMessage(ServerErrorPrefix, s, t), statusCode |-> s])
    ELSE LET parsedData == parseStreamedGptResponse(rawText) IN
         IF parsedData = NoResponse
         THEN Throw([message |-> [literal |-> UnableToParse]])
         ELSE Return(parsedData)

\* sendMessage(message, options) of ChatGpt3: postMessage({accessToken,
\* message, conversationId: options?.conversationId, messageId:
\* options?.messageId}); the request made, the backend's answer and the
\* way the promise settles are logged
sendMessageString(conversationId, messageId, s, t, rawText) ==
    LET k == Generated IN
    /\ Len(Shots) < MaxShots
    /\ calls' = Append(calls,
              [cb |-> "postMessage",
               options |-> [conversationId |-> conversationId, messageId |-> messageId],
               request |-> [accessToken |-> renderedAccessToken,
                            parent_message_id |-> DefaultId(messageId, Uuid(k + 1)),
                            id |-> DefaultId(conversationId, Uuid(k + 2))],
               status |-> s, statusText |-> t, rawText |-> rawText,
               outcome |-> postMessage(s, t, rawText),
               at |-> 0])
    /\ UNCHANGED <<tokenVars, refVars, visibilityVars, renderedStatus, retryVars,
                   pageVars, inbox, parserVars, handled>>

SendMessageString ==
    \E conversationId \in SuppliedIds, messageId \in SuppliedIds,
       s \in SingleShotStatuses, t \in StatusTexts, rawText \in ResponseTexts :
        sendMessageString(conversationId, messageId, s, t, rawText)

\* a single-shot call the backend answers with a client error for the token
SendMessageStringRejected ==
    /\ TokenEvents <= MaxPagePosts
    /\ \E s \in {401, 403} :
          sendMessageString(Undefined, Undefined, s, "", <<>>)

\* a stream call among them
SendMessageWithToken ==
    /\ TokenEvents <= MaxPagePosts
    /\ SendMessage

\* the calls of sendMessage in its object form, with what the caller gave
IsObjectCall(c) == c.cb = "sendMessage"
ObjectCalls == SelectSeq(calls, IsObjectCall)

\* sendMessage in its object form, with or without callbacks, the call
\* itself logged
SendMessageObject ==
    /\ Len(ObjectCalls) < MaxCalls
    /\ \E onPartialResponse \in BOOLEAN, onError \in BOOLEAN :
          /\ sendMessageObject(NoOptions, onPartialResponse, onError)
          /\ calls' = Append(calls,
                    [cb |-> "sendMessage", onPartialResponse |-> onPartialResponse,
                     onError |-> onError, at |-> 0])

\* sendMessage in its string form, answered or rejected by the backend
SendMessageStringAnswered ==
    \E s \in {200, 403}, rawText \in ResponseTexts :
        sendMessageString(Undefined, Undefined, s, "", rawText)

(***************************************************************************)
(* The router: ModalWebView's onMessage.                                   *)
(***************************************************************************)
\* the key sendGptMessage writes is read too, and first
NewAuthTokenLowercaseFirst(payload) ==
    IF payload.kind = "undefined" THEN Absent
    ELSE IF payload.headers.kind = "undefined" THEN Absent
    ELSE IF payload.headers.authorization # Absent THEN payload.headers.authorization
    ELSE payload.headers.Authorization

\* the header is looked up whatever its case
NewAuthTokenAnyCase(payload) ==
    IF payload.kind = "undefined" THEN Absent
    ELSE IF payload.headers.kind = "undefined" THEN Absent
    ELSE IF payload.headers.Authorization # Absent THEN payload.headers.Authorization
    ELSE payload.headers.authorization

\* type === 'REQUEST_INTERCEPTED_CONFIG': Object.keys(payload) throws on an
\* undefined payload (caught); otherwise the token under the key
\* 'Authorization' is reported when it is truthy and differs from the
\* accessToken prop of the render
NewAuthToken(payload) ==
    IF payload.kind = "undefined" THEN Absent
    ELSE IF payload.headers.kind = "undefined" THEN Absent
    ELSE payload.headers.Authorization

\* the earlier router: once a token is held nothing is reported any more
ReportsTokenOnlyWhenUnset(newAuthToken) ==
    /\ newAuthToken # Absent
    /\ renderedAccessToken = ""

ReportsToken(newAuthToken) ==
    /\ newAuthToken # Absent
    /\ newAuthToken # ""
    /\ newAuthToken # renderedAccessToken

\* onAccessTokenChange={setAccessToken}
TokenCall(token, at) ==
    [cb |-> "onAccessTokenChange", token |-> token, held |-> accessToken, at |-> at]

OnInterceptedConfig(m, at) ==
    LET newAuthToken == NewAuthToken(m.payload) IN
    /\ IF ReportsToken(newAuthToken)
       THEN /\ accessToken' = newAuthToken
            /\ calls' = Append(calls, TokenCall(newAuthToken, at))
       ELSE UNCHANGED <<accessToken, calls>>
    /\ UNCHANGED <<renderedAccessToken, refVars, visibilityVars, renderedStatus,
                   retryVars, pageVars, parserVars>>

\* onPartialResponse={(result) => callbackRef.current?.(result)}
PartialCall(result, at) ==
    [cb |-> "onPartialResponse", to |-> callbackRef, response |-> result, at |-> at]

\* a final response is not passed on
PartialCallsUnlessDone(result, at) ==
    IF result # NoResponse /\ ~result.done THEN <<PartialCall(result, at)>> ELSE <<>>

\* the result is passed on without the test for null
PartialCallsAlways(result, at) == <<PartialCall(result, at)>>

\* if (result) { onPartialResponse(result) }
PartialCalls(result, at) ==
    IF result # NoResponse THEN <<PartialCall(result, at)>> ELSE <<>>

\* every message is parsed on its own, nothing is accumulated
OnRawPartialResponseInIsolation(m, at) ==
    /\ calls' = calls \o PartialCalls(parseStreamedGptResponse(m.payload.text), at)
    /\ UNCHANGED <<tokenVars, refVars, visibilityVars, renderedStatus, retryVars,
                   pageVars, parserVars>>

\* type === 'RAW_PARTIAL_RESPONSE'
OnRawPartialResponse(m, at) ==
    LET parsed == IF m.payload.kind = "string"
                  THEN parseStreamBasedResponse(m.payload.text)
                  ELSE ParseFailure
    IN
    /\ buffer' = parsed.buffer
    /\ emitted' = parsed.emitted
    /\ lastSnapshot' = parsed.lastSnapshot
    /\ calls' = calls \o PartialCalls(parsed.result, at)
    /\ UNCHANGED <<tokenVars, refVars, visibilityVars, renderedStatus, retryVars,
                   pageVars>>

\* type === 'GPT3_FULL_CAPACITY' && status === 'visible'
OnFullCapacity(m) ==
    /\ IF renderedStatus = "visible"
       THEN reloadAndCheckCapacityAgain
       ELSE UNCHANGED <<retryVars, pageVars>>
    /\ UNCHANGED <<tokenVars, refVars, visibilityVars, renderedStatus, parserVars,
                   calls>>

\* new ChatGPTError(payload?.statusText ||
\*   `ChatGPTResponseStreamError: ${payload?.status}`): the message is the
\* status text when it is truthy, else the literal with the status put in
StreamErrorPrefix == "ChatGPTResponseStreamError: "

\* the text read under the key `message`, which is not the key of the type
ErrorMessageFromMessageKey(payload) ==
    IF "message" \in DOMAIN payload /\ payload.message # ""
    THEN [literal |-> payload.message]
    ELSE IF "status" \in DOMAIN payload
         THEN [literal |-> StreamErrorPrefix, interpolated |-> payload.status]
         ELSE [literal |-> "ChatGPTResponseStreamError: undefined"]

ErrorMessage(payload) ==
    IF "statusText" \in DOMAIN payload /\ payload.statusText # ""
    THEN [literal |-> payload.statusText]
    ELSE IF "status" \in DOMAIN payload
         THEN [literal |-> StreamErrorPrefix, interpolated |-> payload.status]
         ELSE [literal |-> "ChatGPTResponseStreamError: undefined"]

\* error.statusCode = payload?.status
ChatGPTError(payload) ==
    IF "status" \in DOMAIN payload
    THEN [message |-> ErrorMessage(payload), statusCode |-> payload.status]
    ELSE [message |-> ErrorMessage(payload)]

\* onStreamError={(error) => errorCallbackRef.current?.(error)}
ErrorCall(error, at) ==
    [cb |-> "onStreamError", to |-> errorCallbackRef, error |-> error, at |-> at]

\* type === 'STREAM_ERROR'
OnStreamError(m, at) ==
    /\ calls' = Append(calls, ErrorCall(ChatGPTError(m.payload), at))
    /\ UNCHANGED <<tokenVars, refVars, visibilityVars, renderedStatus, retryVars,
                   pageVars, parserVars>>

\* the probe script's type taken for the capacity notice
RouterKnowsProbeScriptType == ProbeScriptType

\* the type the router takes for the capacity notice
RouterCapacityType == "GPT3_FULL_CAPACITY"

\* no branch is taken, or the exception is caught: catch (e) {}
Ignored ==
    UNCHANGED <<tokenVars, refVars, visibilityVars, renderedStatus, retryVars,
                pageVars, parserVars, calls>>

onMessage ==
    /\ inbox # <<>>
    /\ LET m == Head(inbox)
           at == Len(handled) + 1
       IN
       /\ inbox' = Tail(inbox)
       /\ handled' = IF Logged(m) THEN Append(handled, m) ELSE handled
       /\ IF ParseThrows(m)
          THEN Ignored
          ELSE CASE m.type = "REQUEST_INTERCEPTED_CONFIG" -> OnInterceptedConfig(m, at)
                 [] m.type = "RAW_PARTIAL_RESPONSE" -> OnRawPartialResponse(m, at)
                 [] m.type = RouterCapacityType -> OnFullCapacity(m)
                 [] m.type = "STREAM_ERROR" -> OnStreamError(m, at)
                 [] OTHER -> Ignored

(***************************************************************************)
(* Specifications.                                                         *)
(***************************************************************************)
\* credential capture: the page's requests, the router and the host's renders
NextToken ==
    \/ InterceptFetch
    \/ onMessage
    \/ Render

SpecToken == Init /\ [][NextToken]_vars

\* the visibility state machine and the capacity retry controller
NextVisibility ==
    \/ open
    \/ closePress
    \/ NavigationStateChange
    \/ AnimationEnd
    \/ Render
    \/ ReloadAfterFirstWait
    \/ ProbeAfterSecondWait
    \/ onMessage

SpecVisibility == Init /\ [][NextVisibility]_vars

\* timers fire, animations complete, posted messages are delivered and
\* pending state updates are rendered
FairVisibility ==
    /\ SpecVisibility
    /\ WF_vars(AnimationEnd)
    /\ WF_vars(Render)
    /\ WF_vars(ReloadAfterFirstWait)
    /\ WF_vars(ProbeAfterSecondWait)
    /\ WF_vars(onMessage)

\* the host's callback pair: stream calls that overlap, and the messages
\* their routines post, in any order
NextCallbacks ==
    \/ SendMessageAgain
    \/ PostFromRoutine
    \/ onMessage

SpecCallbacks == Init /\ [][NextCallbacks]_vars

\* the host's token: bridge messages, stream errors, sendMessage calls on
\* both paths and login()
NextHeldToken ==
    \/ PostTokenOrError
    \/ SendMessageWithToken
    \/ SendMessageStringRejected
    \/ open
    \/ onMessage
    \/ Render

SpecHeldToken == Init /\ [][NextHeldToken]_vars

\* the identifiers of the requests on both paths
NextIds ==
    \/ SendMessageWithOptions
    \/ SendMessageString

SpecIds == Init /\ [][NextIds]_vars

\* the single-shot path alone
NextSingleShot == SendMessageString

SpecSingleShot == Init /\ [][NextSingleShot]_vars

\* both forms of sendMessage, callers that give callbacks or not, and the
\* router handling what the dispatched prompts post
NextForms ==
    \/ SendMessageObject
    \/ SendMessageStringAnswered
    \/ onMessage

SpecForms == Init /\ [][NextForms]_vars

\* the visibility state machine with the chat-page navigation events logged
NextNavigation ==
    \/ open
    \/ closePress
    \/ ChatPageNavigation
    \/ AnimationEnd
    \/ Render
    \/ ReloadAfterFirstWait
    \/ ProbeAfterSecondWait
    \/ onMessage

SpecNavigation == Init /\ [][NextNavigation]_vars

\* timers fire, animations complete, posted messages are delivered and
\* pending state updates are rendered; the user and the page are not bound
\* to act
FairNavigation ==
    /\ SpecNavigation
    /\ WF_vars(AnimationEnd)
    /\ WF_vars(Render)
    /\ WF_vars(ReloadAfterFirstWait)
    /\ WF_vars(ProbeAfterSecondWait)
    /\ WF_vars(onMessage)

\* the router alone: messages any script of the page posts
NextRouter ==
    \/ PostStreamError
    \/ onMessage

SpecRouter == Init /\ [][NextRouter]_vars

\* the router and the stream accumulator: sequences of record messages
NextAccumulator ==
    \/ PostRawPartialResponse
    \/ onMessage

SpecAccumulator == Init /\ [][NextAccumulator]_vars

\* the router's dispatch: any text a script of the page posts, with the
\* sandbox opened by the host
NextDispatch ==
    \/ PostToBridge
    \/ onMessage
    \/ open
    \/ AnimationEnd
    \/ Render

SpecDispatch == Init /\ [][NextDispatch]_vars

\* streamed prompts: the host's sendMessage, the injected routine, the router
NextStream ==
    \/ SendMessage
    \/ SandboxStep
    \/ onMessage

SpecStream == Init /\ [][NextStream]_vars

\* streamed prompts sent one after the other
NextSequential ==
    \/ SendNextMessage
    \/ SandboxStep
    \/ onMessage

SpecSequential == Init /\ [][NextSequential]_vars

\* the routine's awaits settle and posted messages are delivered
FairSequential ==
    /\ SpecSequential
    /\ WF_vars(SandboxStep)
    /\ WF_vars(onMessage)

Next ==
    \/ NextToken
    \/ NextVisibility
    \/ NextRouter
    \/ NextAccumulator
    \/ NextDispatch
    \/ NextStream
    \/ NextSequential
    \/ NextCallbacks
    \/ NextSingleShot
    \/ NextIds
    \/ NextHeldToken
    \/ NextNavigation
    \/ NextForms

Spec == Init /\ [][Next]_vars

TypeOK ==
    /\ accessToken \in {""} \cup Tokens
    /\ renderedAccessToken \in {""} \cup Tokens
    /\ callbackRef \in 0..(MaxPrompts + MaxCalls)
    /\ errorCallbackRef \in 0..(MaxPrompts + MaxCalls)
    /\ status \in Statuses
    /\ renderedStatus \in Statuses
    /\ anim \in Modes \cup {"none"}
    /\ waiting1 \in 0..(MaxCycles + MaxPagePosts)
    /\ waiting2 \in 0..MaxCycles
    /\ Chains <= MaxCycles + MaxPagePosts
    /\ atCapacity \in BOOLEAN
    /\ reloaded \in BOOLEAN
    /\ Len(prompts) <= MaxPrompts + MaxCalls
    /\ emitted \in 0..(MaxPrompts * (MaxRecords + MaxBody + 1))

(***************************************************************************)
(* What the logs show.                                                     *)
(***************************************************************************)
IsTokenCall(c) == c.cb = "onAccessTokenChange"
IsErrorCall(c) == c.cb = "onStreamError"
IsPartialCall(c) == c.cb = "onPartialResponse"

\* the tokens onAccessTokenChange was invoked with, in order
TokenCalls ==
    LET cs == SelectSeq(calls, IsTokenCall) IN [i \in DOMAIN cs |-> cs[i].token]

\* the Authorization tokens of the handled request configurations, in order
HasAuthorization(m) ==
    m.type = "REQUEST_INTERCEPTED_CONFIG" /\ NewAuthToken(m.payload) # Absent

ObservedTokens ==
    LET ms == SelectSeq(handled, HasAuthorization)
    IN [i \in DOMAIN ms |-> NewAuthToken(ms[i].payload)]

\* the invocations a handled message caused
CallsAt(k) == {i \in DOMAIN calls : calls[i].at = k}

(***************************************************************************)
(* C1. onAccessTokenChange is never invoked with an empty token and never  *)
(* with a token equal to the one the host holds at that moment, also when  *)
(* two request configurations arrive before the host has rendered the      *)
(* previous change.                                                        *)
(***************************************************************************)
C1_NoRedundantTokenNotification ==
    \A i \in DOMAIN calls :
        IsTokenCall(calls[i]) =>
            /\ calls[i].token # ""
            /\ calls[i].token # calls[i].held

(***************************************************************************)
(* C2. For the observed tokens A, A, B the token-change callback is        *)
(* invoked exactly once, on the A to B transition.                         *)
(***************************************************************************)
C2_OnceForAAB ==
    \A a \in Tokens : \A b \in Tokens \ {a} :
        ObservedTokens = <<a, a, b>> => TokenCalls = <<b>>

\* C2 as amended: starting from the empty token, the callback is invoked
\* for the first A and for B, and for the repeated A only when that message
\* is handled before the host has rendered the first change
C2_FirstAndChangeForAAB ==
    \A a \in Tokens : \A b \in Tokens \ {a} :
        ObservedTokens = <<a, a, b>> =>
            \/ TokenCalls = <<a, b>>
            \/ /\ TokenCalls = <<a, a, b>>
               /\ SelectSeq(calls, IsTokenCall)[2].held = a

C2_Witness ==
    /\ ObservedTokens = <<"A", "A", "B">>
    /\ TokenCalls = <<"A", "B">>

(***************************************************************************)
(* C3. open() while the status is 'animating' or 'visible' is a no-op: it  *)
(* leaves the status unchanged and starts no animation.                    *)
(***************************************************************************)
C3_OpenIsNoOpWhenShown ==
    [][(status \in {"animating", "visible"} /\ open) => UNCHANGED <<status, anim>>]_vars

(***************************************************************************)
(* C4. From 'hidden' at rest, open() sets the status to 'animating' and    *)
(* starts the show animation; with no other input (no open, close press or *)
(* navigation event) the status then changes only to 'visible'.            *)
(***************************************************************************)
VisibilityInput == open \/ closePress \/ NavigationStateChange

C5_NoReloadUnlessVisible ==
    [][reloaded' # reloaded => status = "visible"]_vars

(***************************************************************************)
(* C6. A capacity notice accepted while visible starts a cycle that waits, *)
(* reloads, waits again and probes, in this order; while the document      *)
(* stays at capacity and the status stays 'visible', reloads occur         *)
(* infinitely often.                                                       *)
(***************************************************************************)
C6_CycleOrder ==
    [][/\ waiting1' > waiting1 =>
            /\ inbox # <<>> /\ Head(inbox) = CapacityNotice /\ inbox' = Tail(inbox)
            /\ renderedStatus = "visible"
            /\ UNCHANGED <<waiting2, reloaded>>
       /\ reloaded' # reloaded =>
            /\ waiting1' = waiting1 - 1
            /\ waiting2' = waiting2 + 1
            /\ inbox' = inbox
       /\ waiting2' < waiting2 =>
            /\ UNCHANGED <<waiting1, reloaded>>
            /\ inbox' = checkIfChatGPTIsAtFullCapacity(inbox)]_vars

C6_RepeatsWhileAtCapacity ==
    []((waiting1 > 0 /\ [](atCapacity /\ status = "visible"))
            => ([]<>reloaded /\ []<>~reloaded))

C6_RetryCycle == C6_CycleOrder /\ C6_RepeatsWhileAtCapacity

C6_Witness ==
    waiting2 > 0 /\ reloaded /\ atCapacity /\ status = "visible"

(***************************************************************************)
(* C7. A STREAM_ERROR message with the payload {status: 403, statusText:   *)
(* ""} makes the router invoke the error callback with an error whose      *)
(* message indicates credential expiry.                                    *)
(***************************************************************************)
TypedStreamError(s, t) ==
    Message("STREAM_ERROR", [kind |-> "object", status |-> s, statusText |-> t])

IndicatesCredentialExpiry(message) == message.literal = ExpiredTokenMessage

C7_ForbiddenStreamErrorSignalsExpiry ==
    \A k \in DOMAIN handled :
        handled[k] = TypedStreamError(403, "") =>
            \E i \in CallsAt(k) :
                /\ IsErrorCall(calls[i])
                /\ IndicatesCredentialExpiry(calls[i].error.message)

(***************************************************************************)
(* C8. A STREAM_ERROR message with the payload {status: 500, statusText:   *)
(* "Internal Error"} makes the router invoke the error callback exactly    *)
(* once, with an error carrying the status code 500 and the text.          *)
(***************************************************************************)
C8_ServerStreamErrorCarriesBoth ==
    \A k \in DOMAIN handled :
        handled[k] = TypedStreamError(500, "Internal Error") =>
            /\ Cardinality(CallsAt(k)) = 1
            /\ \A i \in CallsAt(k) :
                  /\ IsErrorCall(calls[i])
                  /\ calls[i].error.statusCode = 500
                  /\ calls[i].error.message = [literal |-> "Internal Error"]

C8_Witness ==
    \E k \in DOMAIN handled :
        /\ handled[k] = TypedStreamError(500, "Internal Error")
        /\ CallsAt(k) # {}

(***************************************************************************)
(* C9. End to end: when the backend answers a streamed prompt with an      *)
(* error status s and a non-empty status text t, the error the host's      *)
(* error callback receives carries s and t.                                *)
(***************************************************************************)
\* the STREAM_ERROR messages that sendGptMessage posted
PostedBySendGptMessage(m) ==
    m.type = "STREAM_ERROR" /\ "message" \in DOMAIN m.payload

C9_StreamErrorCarriesStatusAndText ==
    \A k \in DOMAIN handled :
        (PostedBySendGptMessage(handled[k]) /\ handled[k].payload.message # "") =>
            \E i \in CallsAt(k) :
                /\ IsErrorCall(calls[i])
                /\ calls[i].error.statusCode = handled[k].payload.status
                /\ calls[i].error.message = [literal |-> handled[k].payload.message]

(***************************************************************************)
(* C10. Three RAW_PARTIAL_RESPONSE messages carrying the cumulative        *)
(* records of one message id, then the sentinel, cause exactly one         *)
(* partial-response call with done = true, carrying the final text, and no *)
(* call with a shorter text after a longer one.                            *)
(***************************************************************************)
IsRaw(m) == m.type = "RAW_PARTIAL_RESPONSE"

\* the texts of the handled RAW_PARTIAL_RESPONSE messages, in order
RawTexts ==
    LET ms == SelectSeq(handled, IsRaw) IN [i \in DOMAIN ms |-> ms[i].payload.text]

\* the responses the partial-response callback was invoked with, in order
PartialResponses ==
    LET cs == SelectSeq(calls, IsPartialCall) IN [i \in DOMAIN cs |-> cs[i].response]

ThreeRecordsThenSentinel(id) ==
    <<RecordText(id, 1), RecordText(id, 2), RecordText(id, 3), SentinelText>>

C10_OneDoneAndNoStaleText ==
    \A id \in 1..MaxPrompts :
        RawTexts = ThreeRecordsThenSentinel(id) =>
            LET rs == PartialResponses IN
            /\ Cardinality({i \in DOMAIN rs : rs[i].done}) = 1
            /\ rs # <<>>
            /\ rs[Len(rs)] = Response(3, id, TRUE)
            /\ \A i \in DOMAIN rs : \A j \in DOMAIN rs :
                  i < j => rs[i].message <= rs[j].message

C10_Witness ==
    /\ RawTexts = ThreeRecordsThenSentinel(1)
    /\ Len(PartialResponses) = 4

(***************************************************************************)
(* C11. A RAW_PARTIAL_RESPONSE message after which the text received ends  *)
(* in the middle of a record invokes no callback and its text is kept; the *)
(* next message, when it brings the rest of that record, yields the        *)
(* response for that record.                                               *)
(***************************************************************************)
\* the step handles the RAW_PARTIAL_RESPONSE message at the head of the inbox
HandlesRaw ==
    /\ inbox # <<>>
    /\ IsRaw(Head(inbox))
    /\ handled' = Append(handled, Head(inbox))

\* the second half of the record the buffer ends in
MissingHalf == <<[buffer[Len(buffer)] EXCEPT !.t = "R"]>>

C11_MidRecordChunkIsKept ==
    [][(HandlesRaw /\ EndsMidRecord(buffer \o Head(inbox).payload.text)) =>
          /\ calls' = calls
          /\ buffer' = buffer \o Head(inbox).payload.text]_vars

C11_CompletionYieldsRecord ==
    [][(HandlesRaw /\ EndsMidRecord(buffer) /\ Head(inbox).payload.text = MissingHalf) =>
          calls' = Append(calls,
              PartialCall(Response(buffer[Len(buffer)].n, buffer[Len(buffer)].id, FALSE),
                          Len(handled) + 1))]_vars

C11_IncompleteRecordIsTolerated ==
    /\ C11_MidRecordChunkIsKept
    /\ C11_CompletionYieldsRecord

C11_Witness ==
    \E k \in DOMAIN handled :
        /\ k > 1
        /\ IsRaw(handled[k - 1])
        /\ IsRaw(handled[k])
        /\ handled[k - 1].payload.text = <<RecordText(1, 1)[1]>>
        /\ handled[k].payload.text = <<RecordText(1, 1)[2]>>
        /\ CallsAt(k - 1) = {}
        /\ \E i \in CallsAt(k) : calls[i].response = Response(1, 1, FALSE)

(***************************************************************************)
(* C12. Whatever the chunks a complete response body is split into, the    *)
(* last response the streaming path delivers equals the response the       *)
(* parse of the whole body in one call gives, as postMessage obtains it.   *)
(***************************************************************************)
RECURSIVE Concat(_)
Concat(texts) == IF texts = <<>> THEN <<>> ELSE Head(texts) \o Concat(Tail(texts))

\* all the text handled as RAW_PARTIAL_RESPONSE messages, in order
RawStream == Concat(RawTexts)

EndsWith(text, suffix) ==
    /\ Len(text) >= Len(suffix)
    /\ SubSeq(text, Len(text) - Len(suffix) + 1, Len(text)) = suffix

\* the last prompt's body has been read to its end and handled entirely
WholeBodyHandled ==
    /\ prompts # <<>>
    /\ prompts[Len(prompts)].pc = "done"
    /\ inbox = <<>>
    /\ EndsWith(RawStream, Body(Len(prompts), MaxBody))

Handles(m) == inbox # <<>> /\ m = Head(inbox) /\ inbox' = Tail(inbox)

TypesWithPayload == {"REQUEST_INTERCEPTED_CONFIG", "RAW_PARTIAL_RESPONSE", "STREAM_ERROR"}

Malformed(m) ==
    \/ ParseThrows(m)
    \/ m.type = Absent
    \/ /\ m.type \in TypesWithPayload
       /\ m.payload.kind = "undefined"
    \/ /\ m.type = "RAW_PARTIAL_RESPONSE"
       /\ m.payload.kind # "string"

C13_MalformedMessagesAreDropped ==
    [][\A m \in BridgeTexts :
          (Malformed(m) /\ Handles(m)) =>
              UNCHANGED <<tokenVars, refVars, visibilityVars, renderedStatus,
                          retryVars, pageVars, parserVars, calls>>]_vars

(***************************************************************************)
(* C14. A message of a recognized type reaches the handler of its type and *)
(* no other: only that handler's callback is invoked and only its state    *)
(* changes; a message of any other type invokes no callback, starts no     *)
(* retry cycle and changes no state.                                       *)
(***************************************************************************)
RecognizedTypes ==
    {"REQUEST_INTERCEPTED_CONFIG", "RAW_PARTIAL_RESPONSE", "STREAM_ERROR",
     "GPT3_FULL_CAPACITY"}

\* the callbacks invoked by the step
NewCalls == SubSeq(calls', Len(calls) + 1, Len(calls'))

OnlyCalls(cb) ==
    /\ Len(calls') >= Len(calls)
    /\ SubSeq(calls', 1, Len(calls)) = calls
    /\ \A i \in DOMAIN NewCalls : NewCalls[i].cb = cb

DispatchedTo(type) ==
    CASE type = "REQUEST_INTERCEPTED_CONFIG" ->
            /\ OnlyCalls("onAccessTokenChange")
            /\ UNCHANGED <<renderedAccessToken, refVars, visibilityVars, renderedStatus,
                           retryVars, pageVars, parserVars>>
      [] type = "RAW_PARTIAL_RESPONSE" ->
            /\ OnlyCalls("onPartialResponse")
            /\ UNCHANGED <<tokenVars, refVars, visibilityVars, renderedStatus,
                           retryVars, pageVars>>
      [] type = "STREAM_ERROR" ->
            /\ OnlyCalls("onStreamError")
            /\ Len(NewCalls) = 1
            /\ UNCHANGED <<tokenVars, refVars, visibilityVars, renderedStatus,
                           retryVars, pageVars, parserVars>>
      [] type = "GPT3_FULL_CAPACITY" ->
            /\ calls' = calls
            /\ waiting1' = IF renderedStatus = "visible" THEN waiting1 + 1 ELSE waiting1
            /\ UNCHANGED <<tokenVars, refVars, visibilityVars, renderedStatus,
                           waiting2, pageVars, parserVars>>

C14_OneHandlerPerType ==
    [][\A m \in BridgeTexts :
          (~ParseThrows(m) /\ Handles(m)) =>
              IF m.type \in RecognizedTypes
              THEN DispatchedTo(m.type)
              ELSE UNCHANGED <<tokenVars, refVars, visibilityVars, renderedStatus,
                               retryVars, pageVars, parserVars, calls>>]_vars

\* a capacity notice has started a retry cycle, the probe script's type has
\* been handled, and a STREAM_ERROR has been answered by the error callback
C14_Witness ==
    /\ waiting1 > 0
    /\ \E k \in DOMAIN handled : handled[k].type = ProbeScriptType
    /\ \E k \in DOMAIN handled :
          /\ handled[k].type = "STREAM_ERROR"
          /\ \E i \in CallsAt(k) : IsErrorCall(calls[i])

(***************************************************************************)
(* C15. A REQUEST_INTERCEPTED_CONFIG message whose payload is absent, has  *)
(* no headers, or has headers without the key 'Authorization' (only the    *)
(* lowercase 'authorization', say) is ignored: onAccessTokenChange is not  *)
(* invoked and the held token is unchanged.                                *)
(***************************************************************************)
WithoutAuthorization(m) ==
    /\ m.type = "REQUEST_INTERCEPTED_CONFIG"
    /\ \/ m.payload.kind = "undefined"
       \/ m.payload.headers.kind = "undefined"
       \/ m.payload.headers.Authorization = Absent

LowercaseOnly ==
    Message("REQUEST_INTERCEPTED_CONFIG",
            [kind |-> "object",
             headers |-> [kind |-> "object", Authorization |-> Absent,
                          authorization |-> "A"]])

C15_ConfigWithoutAuthorizationIsIgnored ==
    [][(inbox # <<>> /\ WithoutAuthorization(Head(inbox)) /\ inbox' = Tail(inbox)) =>
          UNCHANGED <<accessToken, calls>>]_vars

\* each of the three shapes has been handled and the token is still unset
C15_Witness ==
    /\ handled = <<Message("REQUEST_INTERCEPTED_CONFIG", UndefinedPayload),
                   Message("REQUEST_INTERCEPTED_CONFIG",
                           [kind |-> "object", headers |-> NoHeaders]),
                   LowercaseOnly>>
    /\ calls = <<>>
    /\ accessToken = ""

(***************************************************************************)
(* C16. For a streamed prompt with a successful response the routine reads *)
(* the body to its end and posts every chunk it read as exactly one        *)
(* RAW_PARTIAL_RESPONSE message, in the order of the reads: none is        *)
(* dropped, duplicated or reordered.                                       *)
(***************************************************************************)
\* the texts of the RAW_PARTIAL_RESPONSE messages posted so far, in order
PostedRaw ==
    LET ms == SelectSeq(handled \o inbox, IsRaw) IN [i \in DOMAIN ms |-> ms[i].payload.text]

\* the chunks read so far, prompt after prompt
RECURSIVE ChunksRead(_)
ChunksRead(ps) == IF ps = <<>> THEN <<>> ELSE Head(ps).chunks \o ChunksRead(Tail(ps))

C16_EveryChunkPostedOnceInOrder ==
    /\ PostedRaw = ChunksRead(prompts)
    /\ \A i \in DOMAIN prompts :
          (prompts[i].pc = "done" /\ prompts[i].chunks # <<>>) =>
              Concat(prompts[i].chunks) = Body(prompts[i].id, MaxBody)

\* a body read to its end in chunks of different sizes, all of them posted
C16_Witness ==
    /\ prompts # <<>>
    /\ prompts[1].pc = "done"
    /\ Len(prompts[1].chunks) >= 3
    /\ \E j \in DOMAIN prompts[1].chunks : Len(prompts[1].chunks[j]) > 1
    /\ \E j \in DOMAIN prompts[1].chunks : Len(prompts[1].chunks[j]) = 1
    /\ PostedRaw = prompts[1].chunks

(***************************************************************************)
(* C17. When the backend answers a streamed prompt with an HTTP error      *)
(* status, the routine posts exactly one STREAM_ERROR message, carrying    *)
(* the status code and the status text, and no RAW_PARTIAL_RESPONSE        *)
(* message for that prompt.                                                *)
(***************************************************************************)
ErrorAnswered(p) == p.status >= 400 /\ p.status < 600
ReadsBody(p) == ~ErrorAnswered(p)
IsStreamError(m) == m.type = "STREAM_ERROR"

\* status and text of the STREAM_ERROR messages posted so far, in order
PostedErrors ==
    LET ms == SelectSeq(handled \o inbox, IsStreamError)
    IN [j \in DOMAIN ms |-> <<ms[j].payload.status, ms[j].payload.message>>]

\* status and text of the error answers so far, prompt after prompt
ErrorAnswers ==
    LET ps == SelectSeq(prompts, ErrorAnswered)
    IN [j \in DOMAIN ps |-> <<ps[j].status, ps[j].statusText>>]

C17_ErrorStatusGivesOneStreamError ==
    /\ PostedErrors = ErrorAnswers
    /\ \A i \in DOMAIN prompts :
          ErrorAnswered(prompts[i]) => (prompts[i].pc = "done" /\ prompts[i].chunks = <<>>)
    /\ Len(PostedRaw) = Len(ChunksRead(SelectSeq(prompts, ReadsBody)))

\* a prompt answered 500 Internal Error, its one message handled
C17_Witness ==
    /\ prompts # <<>>
    /\ prompts[1].status = 500
    /\ prompts[1].statusText = "Internal Error"
    /\ inbox = <<>>
    /\ SelectSeq(handled, IsStreamError) =
          <<Message("STREAM_ERROR", StreamErrorPayload(500, "Internal Error"))>>
    /\ PostedRaw = <<>>

(***************************************************************************)
(* C18. A read of the response body that fails ends the routine quietly:   *)
(* the failing step posts nothing and reaches no host callback, and no    *)
(* RAW_PARTIAL_RESPONSE message is posted for that prompt afterwards.      *)
(***************************************************************************)
\* the response had arrived and the routine ended in its catch
ReadFailed(p) == p.pc = "failed" /\ p.status # 0

C18_Step ==
    \A i \in DOMAIN prompts :
       /\ (prompts[i].pc = "reading" /\ prompts'[i].pc = "failed") =>
              UNCHANGED <<inbox, refVars, parserVars, logVars>>
       /\ ReadFailed(prompts[i]) =>
              /\ prompts'[i] = prompts[i]
              /\ (i = Len(prompts) /\ Len(prompts') = Len(prompts)) =>
                     PostedRaw' = PostedRaw

C18_FailedReadIsSwallowed == [][C18_Step]_vars

\* a chunk was read and posted, the next read failed, the page is idle
C18_Witness ==
    /\ prompts # <<>>
    /\ ReadFailed(prompts[1])
    /\ Len(prompts[1].chunks) = 1
    /\ PostedRaw = prompts[1].chunks
    /\ inbox = <<>>

(***************************************************************************)
(* C19. The status goes from 'visible' to 'animating' exactly on a close   *)
(* press or on a navigation event for the chat page (loading) received     *)
(* while the status is 'visible'; a navigation event received while the    *)
(* status is 'hidden' or 'animating', or for any other url, leaves the     *)
(* status unchanged.                                                       *)
(***************************************************************************)
ChatPageLoading == onNavigationStateChange(TRUE, TRUE)

OtherNavigation ==
    \E chatPage \in BOOLEAN, loading \in BOOLEAN :
        /\ ~(chatPage /\ loading)
        /\ onNavigationStateChange(chatPage, loading)

C19_Step ==
    /\ (status = "visible" /\ status' = "animating") => (closePress \/ ChatPageLoading)
    /\ (status = "visible" /\ (closePress \/ ChatPageLoading)) => status' = "animating"
    /\ (status # "visible" /\ ChatPageLoading) => status' = status
    /\ OtherNavigation => status' = status

C19_VisibleToAnimating == [][C19_Step]_vars

(***************************************************************************)
(* C20. While the status is 'animating' it changes only when an animation  *)
(* completes, to 'visible' or 'hidden'; a close press or an open request   *)
(* during the transition changes neither the status nor the state the      *)
(* running transition ends in.                                             *)
(***************************************************************************)
C20_Step ==
    /\ (status = "animating" /\ status' # status) =>
           (AnimationEnd /\ status' \in {"visible", "hidden"})
    /\ (status = "animating" /\ (closePress \/ open)) =>
           (status' = status /\ anim' = anim)

C20_AnimatingEndsOnlyOnCompletion == [][C20_Step]_vars

(***************************************************************************)
(* C21. After a second stream call, every partial response and every       *)
(* stream error the router surfaces goes to the callbacks of the latest    *)
(* call and never to those of an earlier one, also for results of the      *)
(* earlier prompt; a stream call replaces the pair as a whole, so without  *)
(* onError the earlier onError is not kept (0 is the no-op).               *)
(***************************************************************************)
C21_Step ==
    /\ \A j \in DOMAIN NewCalls :
          /\ IsPartialCall(NewCalls[j]) => NewCalls[j].to = Len(prompts)
          /\ IsErrorCall(NewCalls[j]) => NewCalls[j].to \in {0, Len(prompts)}
    /\ Len(prompts') > Len(prompts) =>
          /\ callbackRef' = Len(prompts')
          /\ errorCallbackRef' \in {0, Len(prompts')}

C21_LatestCallbacksOnly == [][C21_Step]_vars

\* a record of the first prompt delivered to the second call's callback, and
\* an error that reached nobody because the second call gave no onError
C21_Witness ==
    /\ Len(prompts) = 2
    /\ \E i \in DOMAIN calls :
          IsPartialCall(calls[i]) /\ calls[i].to = 2 /\ calls[i].response.messageId = 1
    /\ \E i \in DOMAIN calls : IsErrorCall(calls[i]) /\ calls[i].to = 0
    /\ errorCallbackRef = 0

(***************************************************************************)
(* C22. The single-shot postMessage returns a response only when the       *)
(* status is below 400 and the whole text parses; 401 and 403 give the     *)
(* credential-expiry error, any other 4xx a client error with status and   *)
(* text, 500 and above a server error with status and text, each with      *)
(* statusCode set to the status; a text that does not parse gives the      *)
(* 'Unable to parse response' error.                                       *)
(***************************************************************************)
Parses(rawText) == parseStreamedGptResponse(rawText) # NoResponse
Threw(c, message) == c.outcome.kind = "throw" /\ c.outcome.error.message = message
WithStatusCode(c) ==
    "statusCode" \in DOMAIN c.outcome.error /\ c.outcome.error.statusCode = c.status

SingleShotContract(c) ==
    /\ c.outcome.kind = "return" <=> (c.status < 400 /\ Parses(c.rawText))
    /\ c.outcome.kind = "return" => c.outcome.value.kind = "response"
    /\ c.status \in {401, 403} =>
          /\ c.outcome.kind = "throw"
          /\ IndicatesCredentialExpiry(c.outcome.error.message)
          /\ WithStatusCode(c)
    /\ (c.status >= 400 /\ c.status < 500 /\ c.status \notin {401, 403}) =>
          /\ Threw(c, [literal |-> "ChatGPTResponseClientError: ",
                       status |-> c.status, statusText |-> c.statusText])
          /\ WithStatusCode(c)
    /\ c.status >= 500 =>
          /\ Threw(c, [literal |-> "ChatGPTResponseServerError: ",
                       status |-> c.status, statusText |-> c.statusText])
          /\ WithStatusCode(c)
    /\ (c.status < 400 /\ ~Parses(c.rawText)) =>
          Threw(c, [literal |-> "ChatGPTResponseError: Unable to parse response"])

C22_SingleShotOutcomes == \A i \in DOMAIN Shots : SingleShotContract(Shots[i])

\* a 401 answered with the expiry error
C22_Witness ==
    \E i \in DOMAIN Shots :
        /\ Shots[i].status = 401
        /\ Shots[i].outcome.kind = "throw"
        /\ Shots[i].outcome.error.statusCode = 401

(***************************************************************************)
(* C23. Every capacity probe script of the program posts, when it finds    *)
(* the capacity phrase, a message the router takes for the capacity        *)
(* notice: handled on a visible sandbox, the message of either script      *)
(* starts a reload-and-recheck cycle.                                      *)
(***************************************************************************)
\* what the probe of ModalWebView and the probe script of api/index.ts post
ProbeMessages == {CapacityNotice, Message(ProbeScriptType, UndefinedPayload)}

C23_EveryProbeStartsACycle ==
    [][\A m \in ProbeMessages :
          (Handles(m) /\ status = "visible" /\ renderedStatus = "visible") =>
              waiting1' = waiting1 + 1]_vars

(***************************************************************************)
(* C24. On both sendMessage paths a conversationId or messageId the caller *)
(* supplies reaches the backend request unchanged and one not supplied is  *)
(* replaced by an identifier generated for that call; both paths derive    *)
(* the identifiers from the same options value in the same way, also when  *)
(* the value is the empty string.                                          *)
(***************************************************************************)
IsFresh(id) == id \in {Uuid(k) : k \in 1..(2 * (MaxPrompts + MaxShots))}

\* the requests made on either path, with the options they were made from
Requests ==
    [i \in DOMAIN prompts |-> [options |-> prompts[i].options, request |-> prompts[i].request]]
    \o [i \in DOMAIN Shots |-> [options |-> Shots[i].options, request |-> Shots[i].request]]

Derived(supplied, sent) ==
    /\ (supplied # Undefined /\ supplied # "") => sent = supplied
    /\ supplied = Undefined => IsFresh(sent)

\* for one value of the option, both new or both the value
SameWay(supplied, sent1, sent2) ==
    IF IsFresh(sent1) THEN IsFresh(sent2) ELSE sent1 = sent2

C24_IdentifiersOnBothPaths ==
    /\ \A i \in DOMAIN Requests :
          /\ Derived(Requests[i].options.messageId, Requests[i].request.parent_message_id)
          /\ Derived(Requests[i].options.conversationId, Requests[i].request.id)
    /\ \A i \in DOMAIN Requests : \A j \in DOMAIN Requests :
          /\ Requests[i].options.messageId = Requests[j].options.messageId =>
                SameWay(Requests[i].options.messageId,
                        Requests[i].request.parent_message_id,
                        Requests[j].request.parent_message_id)
          /\ Requests[i].options.conversationId = Requests[j].options.conversationId =>
                SameWay(Requests[i].options.conversationId,
                        Requests[i].request.id, Requests[j].request.id)
    /\ \A i \in DOMAIN Requests : \A j \in DOMAIN Requests :
          (i # j /\ IsFresh(Requests[i].request.id)) =>
              Requests[i].request.id \notin
                  {Requests[j].request.id, Requests[j].request.parent_message_id,
                   Requests[i].request.parent_message_id}

(***************************************************************************)
(* C25. At most one reload-and-recheck cycle is in flight: a new cycle     *)
(* never starts while an earlier one is between its first wait and its     *)
(* final probe.                                                            *)
(***************************************************************************)
CyclesInFlight == waiting1 + waiting2

C25_OneCycleInFlight == [][waiting1' > waiting1 => CyclesInFlight = 0]_vars

(***************************************************************************)
(* C26. Every streamed prompt dispatched into the sandbox eventually leads *)
(* to a terminal host callback: a partial response with done = true or an  *)
(* error callback, also when the network call or a read of the body        *)
(* throws.                                                                 *)
(***************************************************************************)
IsTerminalCall(c) ==
    \/ IsErrorCall(c)
    \/ IsPartialCall(c) /\ c.response.done

TerminalCalls == SelectSeq(calls, IsTerminalCall)

\* with prompts sent one after the other, the i-th prompt has its terminal
\* callback when i of them were made
C26_EveryPromptEnds ==
    \A i \in 1..MaxPrompts : (Len(prompts) >= i) ~> (Len(TerminalCalls) >= i)

(***************************************************************************)
(* C27. Whenever no show or hide animation is in progress the status is    *)
(* not 'animating' and is the target of the animation started last:        *)
(* 'visible' after a show, 'hidden' after a hide.                          *)
(***************************************************************************)
\* anim holds the animation started last for as long as one is in progress
TargetOf(mode) == IF mode = "hide" THEN "hidden" ELSE "visible"

C27_Step ==
    /\ anim' = "none" => status' # "animating"
    /\ (anim # "none" /\ anim' = "none") => status' = TargetOf(anim)
    /\ (anim = "none" /\ anim' = "none") => status' = status

C27_AtRestStatusIsLastTarget == [][C27_Step]_vars

\* a hide has completed and is not rendered yet
C27_Witness == anim = "none" /\ status = "hidden" /\ renderedStatus = "visible"

(***************************************************************************)
(* C28. Once the host holds a non-empty access token it never holds the    *)
(* empty one again: no bridge message, no stream or client error, no       *)
(* sendMessage call and no login() clears it; it changes only to another   *)
(* non-empty token, through the token-change callback.                     *)
(***************************************************************************)
C28_Step ==
    /\ accessToken # "" => accessToken' # ""
    /\ accessToken' # accessToken =>
          /\ accessToken' \in Tokens
          /\ Len(NewCalls) = 1
          /\ IsTokenCall(NewCalls[1])
          /\ NewCalls[1].token = accessToken'

C28_TokenIsNeverCleared == [][C28_Step]_vars

\* login() has opened the sandbox and the token was replaced by another one
C28_Witness ==
    /\ TokenCalls = <<"A", "B">>
    /\ accessToken = "B"
    /\ status # "hidden"

(***************************************************************************)
(* C29. A prompt dispatched by sendGptMessage goes through the patched     *)
(* fetch and so posts a REQUEST_INTERCEPTED_CONFIG message, but that       *)
(* message never invokes the token-change callback and never changes the   *)
(* held token, whatever the token the prompt was dispatched with.          *)
(***************************************************************************)
\* the configuration of a request sendGptMessage makes: its headers hold
\* the key `authorization`
IsPromptConfig(m) ==
    /\ m.type = "REQUEST_INTERCEPTED_CONFIG"
    /\ m.payload.kind = "object"
    /\ m.payload.headers.kind = "object"
    /\ m.payload.headers.authorization # Absent

C29_Step ==
    /\ Len(prompts') > Len(prompts) =>
          \E m \in {inbox'[Len(inbox')]} :
             /\ inbox' = Append(inbox, m)
             /\ IsPromptConfig(m)
             /\ m.payload.headers.authorization = prompts'[Len(prompts')].request.accessToken
    /\ (inbox # <<>> /\ IsPromptConfig(Head(inbox)) /\ inbox' = Tail(inbox)) =>
          UNCHANGED <<accessToken, calls>>

C29_PromptConfigIsNotAToken == [][C29_Step]_vars

\* the host held "B" when the configuration of a prompt dispatched with "A"
\* was handled
C29_Witness ==
    /\ accessToken = "B"
    /\ renderedAccessToken = "B"
    /\ TokenCalls = <<"A", "B">>
    /\ \E k \in DOMAIN handled :
          IsPromptConfig(handled[k]) /\ handled[k].payload.headers.authorization = "A"

(***************************************************************************)
(* C30. After open(), a navigation event for the chat page (loading) that  *)
(* arrives at any later time, also while the status is still 'animating',  *)
(* is followed by the sandbox's return to 'hidden' without a close by the  *)
(* user.                                                                   *)
(***************************************************************************)
C30_ChatPageNavigationHides ==
    \A n \in 1..MaxNavigations : (Len(Navigations) >= n) ~> (status = "hidden")
(***************************************************************************)
(* C31. A sendMessage call in its object form without onPartialResponse    *)
(* dispatches no prompt to the sandbox (no routine starts, nothing is      *)
(* posted) and leaves callbackRef and errorCallbackRef as they were; a     *)
(* call in its string form leaves them as they were too.                   *)
(***************************************************************************)
C31_Step ==
    \A j \in DOMAIN NewCalls :
        /\ (IsObjectCall(NewCalls[j]) /\ ~NewCalls[j].onPartialResponse) =>
               /\ prompts' = prompts
               /\ inbox' = inbox
               /\ callbackRef' = callbackRef
               /\ errorCallbackRef' = errorCallbackRef
        /\ IsShot(NewCalls[j]) =>
               /\ callbackRef' = callbackRef
               /\ errorCallbackRef' = errorCallbackRef

C31_CallsWithoutCallbackChangeNothing == [][C31_Step]_vars

\* a call with both callbacks, then a call without onPartialResponse and a
\* string call, and the callbacks of the first call still registered
C31_Witness ==
    /\ Len(prompts) = 1
    /\ callbackRef = 1
    /\ errorCallbackRef = 1
    /\ \E i \in DOMAIN calls, j \in DOMAIN calls, k \in DOMAIN calls :
          /\ i < j
          /\ i < k
          /\ IsObjectCall(calls[i]) /\ calls[i].onPartialResponse /\ calls[i].onError
          /\ IsObjectCall(calls[j]) /\ ~calls[j].onPartialResponse /\ calls[j].onError
          /\ IsShot(calls[k])

====
